---- MODULE Spec2Model ----
(***************************************************************************)
(* Model of instance_health.py: the InstanceHealthChecker (constructor,    *)
(* eight probes, run_full_check, calculate_health_score), main's           *)
(* single-instance path, compare_instances and monitor_instance.           *)
(***************************************************************************)
EXTENDS Integers, Sequences, FiniteSets, TLC

VARIABLES
    arg,          \* the string handed to the constructor
    instance,     \* self.instance
    base_url,     \* self.base_url
    health_data,  \* self.health_data: probe name -> result
    calls,        \* the probes invoked so far, in order
    pc,           \* position of the running entry point
    ret,          \* what run_full_check returned: "none", "True", "False"
    raised,       \* the fault that left the entry point, "none" if none
    export_opt,   \* args.export was given
    printed,      \* print_detailed_report ran
    exported,     \* export_csv ran
    scores,       \* the values calculate_health_score returned, in order
    report0,      \* the report as it was before scoring
    probe,        \* the probe invoked on its own
    outcome,      \* what the HTTP calls of that invocation did
    result,       \* what that invocation produced
    requests,     \* the HTTP requests of that invocation, where traced
    checkers,     \* the objects built from the three spellings of a host
    instances,    \* compare_instances: the instances handed in
    results,      \* compare_instances: the entries collected so far
    ranking,      \* compare_instances: results after the sort
    worlds,       \* what the instances checked so far answer, newest last
    runs          \* monitor_instance: completed iterations

vars == <<arg, instance, base_url, health_data, calls, pc, ret, raised,
          export_opt, printed, exported, scores, report0, probe, outcome,
          result, requests, checkers, instances, results, ranking, worlds,
          runs>>

objVars == <<arg, instance, base_url>>
mainVars == <<export_opt, printed, exported>>
scoreVars == <<scores, report0>>
probeVars == <<probe, outcome, result, requests>>
otherVars == <<checkers, instances, results, ranking, worlds, runs>>

----------------------------------------------------------------------------
(* Bounds of the model *)

MaxFragments == 3   \* a host string is at most this many fragments
MaxLinks == 2       \* entries of the well-known document's links array
MaxCalls == 2       \* calls of calculate_health_score on one report
MaxInstances == 4   \* instances handed to compare_instances
MaxRuns == 3        \* iterations of the monitor loop that are followed

----------------------------------------------------------------------------
(* Strings are sequences of characters, so that replace and strip act on   *)
(* them as str.replace and str.strip do.                                   *)

HTTPS == <<"h", "t", "t", "p", "s", ":", "/", "/">>
HTTP == <<"h", "t", "t", "p", ":", "/", "/">>
SLASH == <<"/">>

startswith(s, prefix) ==
    /\ Len(s) >= Len(prefix)
    /\ SubSeq(s, 1, Len(prefix)) = prefix

\* str.replace(old, new): left to right, occurrences do not overlap, the
\* text put in is not searched again.
RECURSIVE replace(_, _, _)
replace(s, old, new) ==
    IF Len(s) < Len(old) THEN s
    ELSE IF startswith(s, old)
         THEN new \o replace(SubSeq(s, Len(old) + 1, Len(s)), old, new)
         ELSE <<Head(s)>> \o replace(Tail(s), old, new)

RECURSIVE lstrip(_, _)
lstrip(s, ch) ==
    IF s # <<>> /\ Head(s) = ch THEN lstrip(Tail(s), ch) ELSE s

RECURSIVE rstrip(_, _)
rstrip(s, ch) ==
    IF s # <<>> /\ s[Len(s)] = ch THEN rstrip(SubSeq(s, 1, Len(s) - 1), ch) ELSE s

strip(s, ch) == rstrip(lstrip(s, ch), ch)

\* InstanceHealthChecker.__init__: the two fields derived from the argument.
NormalizeInstance(a) == strip(replace(replace(a, HTTPS, <<>>), HTTP, <<>>), "/")

BaseUrl(inst) == HTTPS \o inst

NewChecker(a) ==
    [instance |-> NormalizeInstance(a),
     base_url |-> BaseUrl(NormalizeInstance(a)),
     health_data |-> <<>>]

----------------------------------------------------------------------------
(* What one HTTP call can do: answer, or fail in the transport.  A         *)
(* response carries the fields the probes read.                            *)

ProbeOrder ==
    <<"reachability", "api", "nodeinfo", "timeline", "streaming", "media",
      "security", "rate_limiting">>

ProbeNames == {ProbeOrder[i] : i \in 1..Len(ProbeOrder)}

HeaderNames ==
    {"Strict-Transport-Security", "Content-Security-Policy", "X-Frame-Options",
     "X-Content-Type-Options", "X-RateLimit-Limit"}

NODEINFO_2 == <<"n", "o", "d", "e", "i", "n", "f", "o", "/", "2", ".">>
Href20 == <<"/">> \o NODEINFO_2 \o <<"0">>
Href21 == <<"/">> \o NODEINFO_2 \o <<"1">>
Href10 == <<"/", "n", "o", "d", "e", "i", "n", "f", "o", "/", "1", ".", "0">>

LinkKinds ==
    {[rel |-> "schema", href |-> Href20], [rel |-> "schema", href |-> Href21],
     [rel |-> "schema", href |-> Href10], [rel |-> "schema"]}

SeqsUpTo(S, n) == UNION {[1..k -> S] : k \in 0..n}

\* The parsed bodies: a document without links, or one with a links array.
Documents(linkSeqs) == {<<>>} \cup {[links |-> l] : l \in linkSeqs}

Response(code, ms, https, headers, body, doc, items) ==
    [kind |-> "response", status_code |-> code, elapsed_ms |-> ms,
     https |-> https, headers |-> headers, body |-> body, doc |-> doc,
     items |-> items]

Fault(cls) ==
    [kind |-> cls, status_code |-> 0, elapsed_ms |-> 0, https |-> FALSE,
     headers |-> {}, body |-> "none", doc |-> <<>>, items |-> 0]

\* A universe names the values each field of an HTTP outcome is drawn from
\* (reach_https, sec_https: whether the final URL of the reachability GET and
\* of the security GET is an https one).
FullUniverse ==
    [codes |-> {200, 401, 403, 404},
     latencies |-> {150, 200, 250, 300, 500, 600},
     reach_https |-> BOOLEAN,
     sec_https |-> BOOLEAN,
     headers |-> SUBSET HeaderNames,
     bodies |-> {"json", "garbage"},
     docs |-> Documents(SeqsUpTo(LinkKinds, MaxLinks)),
     items |-> {0, 20},
     faults |-> {"SSLError", "Timeout", "ConnectionError"},
     fault_probes |-> ProbeNames]

\* Every status, latency tier and security score, other payload fixed;
\* transport faults where they give a status no response gives.
ScoreUniverse ==
    [codes |-> {200, 403},
     latencies |-> FullUniverse.latencies,
     reach_https |-> {TRUE},
     sec_https |-> BOOLEAN,
     headers |-> {{}, {"Strict-Transport-Security"},
                  {"Strict-Transport-Security", "Content-Security-Policy"},
                  {"Strict-Transport-Security", "Content-Security-Policy",
                   "X-Frame-Options"},
                  HeaderNames \ {"X-RateLimit-Limit"}, HeaderNames},
     bodies |-> {"json"},
     docs |-> {[links |-> <<[rel |-> "schema", href |-> Href20]>>]},
     items |-> {20},
     faults |-> {"ConnectionError"},
     fault_probes |-> {"reachability", "timeline", "security"}]

\* Every status of every probe, one outcome each.
RunUniverse ==
    [codes |-> {200, 403},
     latencies |-> {150},
     reach_https |-> {TRUE},
     sec_https |-> {TRUE},
     headers |-> {{}, HeaderNames},
     bodies |-> {"json"},
     docs |-> {[links |-> <<[rel |-> "schema", href |-> Href20]>>]},
     items |-> {20},
     faults |-> {"SSLError"},
     fault_probes |-> ProbeNames]

Faults(u, name) ==
    IF name \in u.fault_probes THEN {Fault(f) : f \in u.faults} ELSE {}

\* What one request to an instance endpoint of the API can meet.
ApiOutcomes(u) ==
    {Response(c, 150, TRUE, {}, b, <<>>, 0) : c \in u.codes, b \in u.bodies}
    \cup Faults(u, "api")

\* The outcomes of the call(s) one invocation of a probe makes; a probe that
\* may issue two requests gets a pair.
Outcomes(name, u) ==
    CASE name = "reachability" ->
           {Response(c, l, h, {}, "json", <<>>, 0) :
                c \in u.codes, l \in u.latencies, h \in u.reach_https}
           \cup Faults(u, name)
      [] name = "api" ->
           ApiOutcomes(u) \X ApiOutcomes(u)
      [] name = "nodeinfo" ->
           LET first == {Response(c, 150, TRUE, {}, b, d, 0) :
                             c \in u.codes, b \in u.bodies, d \in u.docs}
                        \cup Faults(u, name)
               second == {Response(c, 150, TRUE, {}, b, <<>>, 0) :
                              c \in u.codes, b \in u.bodies}
                      \cup Faults(u, name)
           IN  first \X second
      [] name = "timeline" ->
           {Response(c, l, TRUE, {}, b, <<>>, n) :
                c \in u.codes, l \in u.latencies, b \in u.bodies, n \in u.items}
           \cup Faults(u, name)
      [] name \in {"streaming", "media"} ->
           {Response(c, 150, TRUE, {}, "json", <<>>, 0) : c \in u.codes}
           \cup Faults(u, name)
      [] name = "security" ->
           {Response(c, 150, h, hs, "json", <<>>, 0) :
                c \in u.codes, h \in u.sec_https, hs \in u.headers}
           \cup Faults(u, name)
      [] name = "rate_limiting" ->
           {Response(c, 150, TRUE, hs, "json", <<>>, 0) :
                c \in u.codes, hs \in u.headers}
           \cup Faults(u, name)

----------------------------------------------------------------------------
(* Faults.  A probe body either returns a result or raises; the except     *)
(* clauses of the probe turn what they catch into a result.                *)

ExceptionClasses ==
    {"SSLError", "Timeout", "ConnectionError", "ValueError", "KeyError"}

Raise(cls) == [raise |-> cls]

IsRaise(r) == "raise" \in DOMAIN r

\* isinstance(e, base) for the classes above: each is an Exception.
IsInstance(cls, base) ==
    \/ cls = base
    \/ base = "Exception" /\ cls \in ExceptionClasses

\* str(e)
ExcStr(cls) ==
    CASE cls = "SSLError" -> "certificate verify failed"
      [] cls = "Timeout" -> "Read timed out"
      [] cls = "ConnectionError" -> "Connection refused"
      [] cls = "ValueError" -> "Expecting value"
      [] cls = "KeyError" -> "'href'"
      [] OTHER -> ""

\* f'{response.status_code}'
CodeStr(code) ==
    CASE code = 200 -> "200"
      [] code = 401 -> "401"
      [] code = 403 -> "403"
      [] code = 404 -> "404"
      [] OTHER -> "0"

\* requests.get / requests.post: the response, or the transport fault raised.
Request(o) == IF o.kind = "response" THEN o ELSE Raise(o.kind)

\* response.json(): the parsed document, or ValueError on an unparseable body.
Json(o) == IF o.body = "json" THEN [data |-> o.doc] ELSE Raise("ValueError")

\* d.get(key, default)
Get(d, key, default) == IF key \in DOMAIN d THEN d[key] ELSE default

contains(s, sub) ==
    \E i \in 1..(Len(s) - Len(sub) + 1) : SubSeq(s, i, i + Len(sub) - 1) = sub

----------------------------------------------------------------------------
(* The eight probes *)

reachability_try(o) ==
    LET response == Request(o) IN
    IF IsRaise(response) THEN response
    ELSE [status |-> IF response.status_code = 200 THEN "ok" ELSE "warning",
          latency_ms |-> response.elapsed_ms,
          status_code |-> response.status_code,
          https |-> response.https]

check_reachability(o) ==
    LET r == reachability_try(o) IN
    IF ~IsRaise(r) THEN r
    ELSE IF IsInstance(r.raise, "SSLError")
         THEN [status |-> "error", message |-> "SSL-Fehler"]
    ELSE IF IsInstance(r.raise, "Timeout")
         THEN [status |-> "error", message |-> "Timeout"]
    ELSE IF IsInstance(r.raise, "Exception")
         THEN [status |-> "error", message |-> ExcStr(r.raise)]
    ELSE r

api_try(os) ==
    LET v2 == Request(os[1]) IN
    IF IsRaise(v2) THEN v2
    ELSE IF v2.status_code = 200
         THEN LET body == Json(v2) IN
              IF IsRaise(body) THEN body
              ELSE [status |-> "ok", version |-> "v2", data |-> body.data]
    ELSE LET v1 == Request(os[2]) IN
         IF IsRaise(v1) THEN v1
         ELSE IF v1.status_code = 200
              THEN LET body == Json(v1) IN
                   IF IsRaise(body) THEN body
                   ELSE [status |-> "ok", version |-> "v1", data |-> body.data]
         ELSE [status |-> "error",
               message |-> "Status " \o CodeStr(v1.status_code)]

check_api(os) ==
    LET r == api_try(os) IN
    IF ~IsRaise(r) THEN r
    ELSE IF IsInstance(r.raise, "Exception")
         THEN [status |-> "error", message |-> ExcStr(r.raise)]
    ELSE r

\* check_api one request at a time.  The statements up to the v2 return:
\* a result, a fault, or Fallthrough when control goes on to the v1 request.
V2Path == "/api/v2/instance"
V1Path == "/api/v1/instance"

Fallthrough == [fallthrough |-> TRUE]

IsFallthrough(r) == "fallthrough" \in DOMAIN r

\* A probe body that treats a fault of the v2 request like a non-200 answer.
api_v2_try_eager(o) ==
    LET v2 == Request(o) IN
    IF IsRaise(v2) THEN Fallthrough
    ELSE IF v2.status_code = 200
         THEN LET body == Json(v2) IN
              IF IsRaise(body) THEN body
              ELSE [status |-> "ok", version |-> "v2", data |-> body.data]
    ELSE Fallthrough

api_v2_try(o) ==
    LET v2 == Request(o) IN
    IF IsRaise(v2) THEN v2
    ELSE IF v2.status_code = 200
         THEN LET body == Json(v2) IN
              IF IsRaise(body) THEN body
              ELSE [status |-> "ok", version |-> "v2", data |-> body.data]
    ELSE Fallthrough

\* The statements from the v1 request to the end of the try body.
api_v1_try(o) ==
    LET v1 == Request(o) IN
    IF IsRaise(v1) THEN v1
    ELSE IF v1.status_code = 200
         THEN LET body == Json(v1) IN
              IF IsRaise(body) THEN body
              ELSE [status |-> "ok", version |-> "v1", data |-> body.data]
    ELSE [status |-> "error",
          message |-> "Status " \o CodeStr(v1.status_code)]

\* except Exception as e
api_except(r) ==
    IF ~IsRaise(r) THEN r
    ELSE IF IsInstance(r.raise, "Exception")
         THEN [status |-> "error", message |-> ExcStr(r.raise)]
    ELSE r

\* The for loop over the links: the href of the first link whose href
\* contains 'nodeinfo/2.', or <<>> (None) when there is none.
RECURSIVE FirstNodeinfo2(_)
FirstNodeinfo2(links) ==
    IF links = <<>> THEN <<>>
    ELSE IF contains(Get(Head(links), "href", <<>>), NODEINFO_2)
         THEN Head(links).href
         ELSE FirstNodeinfo2(Tail(links))

nodeinfo_try(os) ==
    LET wk == Request(os[1]) IN
    IF IsRaise(wk) THEN wk
    ELSE IF wk.status_code # 200
         THEN [status |-> "warning", message |-> "NodeInfo nicht verfuegbar"]
    ELSE LET body == Json(wk) IN
         IF IsRaise(body) THEN body
         ELSE LET nodeinfo_url == FirstNodeinfo2(Get(body.data, "links", <<>>)) IN
              IF nodeinfo_url = <<>>
              THEN [status |-> "warning",
                    message |-> "NodeInfo-Link nicht gefunden"]
              ELSE LET ni == Request(os[2]) IN
                   IF IsRaise(ni) THEN ni
                   ELSE IF ni.status_code = 200
                        THEN LET doc == Json(ni) IN
                             IF IsRaise(doc) THEN doc
                             ELSE [status |-> "ok", data |-> doc.data]
                   ELSE [status |-> "warning",
                         message |-> "NodeInfo nicht erreichbar"]

\* check_nodeinfo catching transport faults only (requests' exceptions), so
\* that a body that does not parse leaves the probe as a fault.
check_nodeinfo_narrow(os) ==
    LET r == nodeinfo_try(os) IN
    IF ~IsRaise(r) THEN r
    ELSE IF r.raise \in {"SSLError", "Timeout", "ConnectionError"}
         THEN [status |-> "warning", message |-> ExcStr(r.raise)]
    ELSE r

check_nodeinfo(os) ==
    LET r == nodeinfo_try(os) IN
    IF ~IsRaise(r) THEN r
    ELSE IF IsInstance(r.raise, "Exception")
         THEN [status |-> "warning", message |-> ExcStr(r.raise)]
    ELSE r

timeline_try(o) ==
    LET response == Request(o) IN
    IF IsRaise(response) THEN response
    ELSE IF response.status_code = 200
         THEN LET posts == Json(response) IN
              IF IsRaise(posts) THEN posts
              ELSE [status |-> "ok", latency_ms |-> response.elapsed_ms,
                    posts_count |-> response.items]
    ELSE [status |-> "warning",
          message |-> "Status " \o CodeStr(response.status_code)]

\* check_timeline_performance reporting a non-200 answer without a message.
check_timeline_performance_silent(o) ==
    LET r == timeline_try(o) IN
    IF ~IsRaise(r)
    THEN IF r.status = "warning" THEN [status |-> "warning"] ELSE r
    ELSE IF IsInstance(r.raise, "Exception")
         THEN [status |-> "error", message |-> ExcStr(r.raise)]
    ELSE r

check_timeline_performance(o) ==
    LET r == timeline_try(o) IN
    IF ~IsRaise(r) THEN r
    ELSE IF IsInstance(r.raise, "Exception")
         THEN [status |-> "error", message |-> ExcStr(r.raise)]
    ELSE r

streaming_try(o) ==
    LET response == Request(o) IN
    IF IsRaise(response) THEN response
    ELSE [status |-> IF response.status_code = 200 THEN "ok" ELSE "warning",
          available |-> response.status_code = 200]

check_streaming(o) ==
    LET r == streaming_try(o) IN
    IF ~IsRaise(r) THEN r
    ELSE IF IsInstance(r.raise, "Exception")
         THEN [status |-> "warning", message |-> "Nicht erreichbar"]
    ELSE r

media_try(o) ==
    LET response == Request(o) IN
    IF IsRaise(response) THEN response
    ELSE IF response.status_code \in {401, 403}
         THEN [status |-> "ok", available |-> TRUE]
    ELSE [status |-> "warning",
          message |-> "Unerwarteter Status " \o CodeStr(response.status_code)]

check_media_upload(o) ==
    LET r == media_try(o) IN
    IF ~IsRaise(r) THEN r
    ELSE IF IsInstance(r.raise, "Exception")
         THEN [status |-> "warning", message |-> ExcStr(r.raise)]
    ELSE r

\* sum(checks.values())
CountTrue(checks) == Cardinality({k \in DOMAIN checks : checks[k]})

security_try(o) ==
    LET response == Request(o) IN
    IF IsRaise(response) THEN response
    ELSE LET headers == response.headers
             checks == [https |-> response.https,
                        hsts |-> "Strict-Transport-Security" \in headers,
                        csp |-> "Content-Security-Policy" \in headers,
                        x_frame_options |-> "X-Frame-Options" \in headers,
                        x_content_type_options |->
                            "X-Content-Type-Options" \in headers]
             score == CountTrue(checks)
         IN  [status |-> IF score >= 4 THEN "ok" ELSE "warning",
              checks |-> checks,
              score |-> score,
              max_score |-> Cardinality(DOMAIN checks)]

check_security_headers(o) ==
    LET r == security_try(o) IN
    IF ~IsRaise(r) THEN r
    ELSE IF IsInstance(r.raise, "Exception")
         THEN [status |-> "error", message |-> ExcStr(r.raise)]
    ELSE r

\* header.startswith('X-RateLimit') over the header names of the model
IsRateLimitHeader(h) == h \in {"X-RateLimit-Limit"}

rate_limiting_try(o) ==
    LET response == Request(o) IN
    IF IsRaise(response) THEN response
    ELSE LET has_rate_limit == \E h \in response.headers : IsRateLimitHeader(h)
         IN  [status |-> IF has_rate_limit THEN "ok" ELSE "warning",
              active |-> has_rate_limit,
              headers |-> {k \in response.headers : IsRateLimitHeader(k)}]

check_rate_limiting(o) ==
    LET r == rate_limiting_try(o) IN
    IF ~IsRaise(r) THEN r
    ELSE IF IsInstance(r.raise, "Exception")
         THEN [status |-> "warning", message |-> ExcStr(r.raise)]
    ELSE r

\* The probe run_full_check calls under each key of health_data.
Probe(name, o) ==
    CASE name = "reachability" -> check_reachability(o)
      [] name = "api" -> check_api(o)
      [] name = "nodeinfo" -> check_nodeinfo(o)
      [] name = "timeline" -> check_timeline_performance(o)
      [] name = "streaming" -> check_streaming(o)
      [] name = "media" -> check_media_upload(o)
      [] name = "security" -> check_security_headers(o)
      [] name = "rate_limiting" -> check_rate_limiting(o)

----------------------------------------------------------------------------
(* run_full_check *)

\* self.health_data[key] = value
Put(d, key, value) ==
    [k \in DOMAIN d \cup {key} |-> IF k = key THEN value ELSE d[k]]

\* The keys run_full_check reads with result[key] (not .get) right after it
\* stored the result of the probe.
Subscripted(name, r) ==
    CASE name = "reachability" -> {"status", "latency_ms"}
      [] name = "api" ->
           IF r.status = "ok" THEN {"status", "version"} ELSE {"status"}
      [] name = "timeline" ->
           IF r.status = "ok" THEN {"status", "latency_ms"} ELSE {"status"}
      [] name = "security" -> {"status", "score", "max_score"}
      [] OTHER -> {"status"}

\* RunStep without the early return on an unreachable instance.
RunStepNoGate(name, hd, o) ==
    LET r == Probe(name, o) IN
    IF IsRaise(r) THEN [health_data |-> hd, exit |-> "raise", raised |-> r.raise]
    ELSE LET stored == Put(hd, name, r) IN
         IF ~(Subscripted(name, r) \subseteq DOMAIN r)
         THEN [health_data |-> stored, exit |-> "raise", raised |-> "KeyError"]
         ELSE IF name = "rate_limiting"
         THEN [health_data |-> stored, exit |-> "return_true", raised |-> "none"]
         ELSE [health_data |-> stored, exit |-> "next", raised |-> "none"]

\* One probe section of run_full_check: call the probe, store the result,
\* print its line.  exit says how the section is left.
RunStep(name, hd, o) ==
    LET r == Probe(name, o) IN
    IF IsRaise(r) THEN [health_data |-> hd, exit |-> "raise", raised |-> r.raise]
    ELSE LET stored == Put(hd, name, r) IN
         IF name = "reachability" /\ r.status = "error"
         THEN [health_data |-> stored, exit |-> "return_false", raised |-> "none"]
         ELSE IF ~(Subscripted(name, r) \subseteq DOMAIN r)
         THEN [health_data |-> stored, exit |-> "raise", raised |-> "KeyError"]
         ELSE IF name = "rate_limiting"
         THEN [health_data |-> stored, exit |-> "return_true", raised |-> "none"]
         ELSE [health_data |-> stored, exit |-> "next", raised |-> "none"]

NextProbe(name) ==
    ProbeOrder[1 + CHOOSE i \in 1..Len(ProbeOrder) : ProbeOrder[i] = name]

----------------------------------------------------------------------------
(* calculate_health_score *)

StatusOf(hd, name) == Get(Get(hd, name, <<>>), "status", "None")

\* ReachabilityPoints with the latency tiers closed above (<= for <).
ReachabilityPointsClosed(hd) ==
    IF StatusOf(hd, "reachability") = "ok"
    THEN LET latency == Get(hd["reachability"], "latency_ms", 1000) IN
         20 + (IF latency <= 200 THEN 5 ELSE IF latency <= 500 THEN 3 ELSE 0)
    ELSE 0

ReachabilityPoints(hd) ==
    IF StatusOf(hd, "reachability") = "ok"
    THEN LET latency == Get(hd["reachability"], "latency_ms", 1000) IN
         20 + (IF latency < 200 THEN 5 ELSE IF latency < 500 THEN 3 ELSE 0)
    ELSE 0

TimelinePoints(hd) ==
    IF StatusOf(hd, "timeline") = "ok"
    THEN LET latency == Get(hd["timeline"], "latency_ms", 1000) IN
         10 + (IF latency < 300 THEN 5 ELSE IF latency < 600 THEN 3 ELSE 0)
    ELSE 0

\* int(15 * (sec_score / sec_max)): the quotient is a double; for the scores
\* the probe produces (0..5 of 5) the product is exact (0.0, 3.0, .. 15.0),
\* so the truncation is the integer quotient.
SecurityPoints(hd) ==
    IF StatusOf(hd, "security") \in {"ok", "warning"}
    THEN (15 * hd["security"].score) \div hd["security"].max_score
    ELSE 0

Min(a, b) == IF a < b THEN a ELSE b

RawScore(hd) ==
    ReachabilityPoints(hd)
    + (IF StatusOf(hd, "api") = "ok" THEN 15 ELSE 0)
    + (IF StatusOf(hd, "nodeinfo") = "ok" THEN 10 ELSE 0)
    + TimelinePoints(hd)
    + (IF StatusOf(hd, "streaming") = "ok" THEN 10 ELSE 0)
    + (IF StatusOf(hd, "media") = "ok" THEN 10 ELSE 0)
    + SecurityPoints(hd)
    + (IF StatusOf(hd, "rate_limiting") = "ok" THEN 5 ELSE 0)

\* calculate_health_score without the final min.
calculate_health_score_unclamped(hd) == RawScore(hd)

calculate_health_score(hd) == Min(RawScore(hd), 100)

----------------------------------------------------------------------------
(* The states before anything is built or run *)

BlankObject == arg = <<>> /\ instance = <<>> /\ base_url = <<>>
BlankRun == calls = <<>> /\ ret = "none" /\ raised = "none"
BlankMain == export_opt = FALSE /\ printed = FALSE /\ exported = FALSE
BlankProbe ==
    probe = "none" /\ outcome = <<>> /\ result = <<>> /\ requests = <<>>
BlankOther ==
    /\ checkers = <<>> /\ instances = <<>> /\ results = <<>>
    /\ ranking = <<>> /\ worlds = <<>> /\ runs = 0

Blank ==
    /\ BlankObject /\ BlankRun /\ BlankMain /\ BlankProbe /\ BlankOther
    /\ health_data = <<>> /\ scores = <<>> /\ report0 = <<>>

----------------------------------------------------------------------------
(* Worlds: what an instance answers to each probe of one run.              *)

Answer(code) == Response(code, 150, TRUE, {}, "json", <<>>, 0)

WellKnown ==
    Response(200, 150, TRUE, {}, "json",
             [links |-> <<[rel |-> "schema", href |-> Href20]>>], 0)

\* The end-to-end example: every probe meets its criterion.
HealthyWorld ==
    [reachability |-> Answer(200),
     api |-> <<Answer(200), Answer(200)>>,
     nodeinfo |-> <<WellKnown, Answer(200)>>,
     timeline |-> Response(200, 250, TRUE, {}, "json", <<>>, 20),
     streaming |-> Answer(200),
     media |-> Answer(403),
     security |-> Response(200, 150, TRUE, HeaderNames, "json", <<>>, 0),
     rate_limiting |->
         Response(200, 150, TRUE, {"X-RateLimit-Limit"}, "json", <<>>, 0)]

\* Nothing but the root page answers as hoped.
BareWorld ==
    [reachability |-> Answer(200),
     api |-> <<Answer(404), Answer(404)>>,
     nodeinfo |-> <<Answer(404), Answer(404)>>,
     timeline |-> Answer(404),
     streaming |-> Answer(404),
     media |-> Answer(200),
     security |-> Response(200, 150, FALSE, {}, "json", <<>>, 0),
     rate_limiting |-> Answer(200)]

World90 ==
    [HealthyWorld EXCEPT !.media = Answer(200),
                         !.rate_limiting = Answer(200)]

World40 ==
    [BareWorld EXCEPT !.reachability =
                          Response(200, 600, TRUE, {}, "json", <<>>, 0),
                      !.api = <<Answer(200), Answer(200)>>,
                      !.rate_limiting = HealthyWorld.rate_limiting]

World10 ==
    [BareWorld EXCEPT !.reachability = Answer(404), !.streaming = Answer(200)]

GateFailWorld == [HealthyWorld EXCEPT !.reachability = Fault("SSLError")]

ApiFaultWorld ==
    [HealthyWorld EXCEPT !.api = <<Fault("Timeout"), Answer(200)>>]

TimelineFaultWorld == [HealthyWorld EXCEPT !.timeline = Fault("Timeout")]

SecurityFaultWorld ==
    [HealthyWorld EXCEPT !.security = Fault("ConnectionError")]

Scenarios ==
    {HealthyWorld, World90, World40, World10, GateFailWorld, ApiFaultWorld,
     TimelineFaultWorld, SecurityFaultWorld}

----------------------------------------------------------------------------
(* run_full_check, one probe section at a time.  It runs on the checker    *)
(* its caller built and hands its return value, or its fault, back.        *)

\* The outcomes the HTTP calls of a section can have: those of the world
\* the caller's instance lives in, when the caller fixed one.
Offered(name) ==
    IF worlds = <<>> THEN Outcomes(name, RunUniverse)
    ELSE {worlds[Len(worlds)][name]}

\* A return gives control back to the caller; a fault no caller catches
\* ends the program.
Section(name) ==
    /\ pc = name
    /\ \E o \in Offered(name) :
          LET st == RunStep(name, health_data, o) IN
          /\ health_data' = st.health_data
          /\ calls' = Append(calls, name)
          /\ raised' = st.raised
          /\ ret' = CASE st.exit = "return_true" -> "True"
                      [] st.exit = "return_false" -> "False"
                      [] OTHER -> ret
          /\ pc' = CASE st.exit = "next" -> NextProbe(name)
                     [] st.exit = "raise" -> "exit"
                     [] OTHER -> "returned"
    /\ UNCHANGED <<objVars, mainVars, scoreVars, probeVars, otherVars>>

RunReachability == Section("reachability")
RunApi == Section("api")
RunNodeinfo == Section("nodeinfo")
RunTimeline == Section("timeline")
RunStreaming == Section("streaming")
RunMedia == Section("media")
RunSecurity == Section("security")
RunRateLimiting == Section("rate_limiting")

RunFullCheck ==
    \/ RunReachability
    \/ RunApi
    \/ RunNodeinfo
    \/ RunTimeline
    \/ RunStreaming
    \/ RunMedia
    \/ RunSecurity
    \/ RunRateLimiting

\* checker = InstanceHealthChecker(a), about to call run_full_check
BuildChecker(a) ==
    /\ arg' = a
    /\ instance' = NewChecker(a).instance
    /\ base_url' = NewChecker(a).base_url
    /\ health_data' = NewChecker(a).health_data
    /\ calls' = <<>>
    /\ ret' = "none"
    /\ pc' = "reachability"

----------------------------------------------------------------------------
(* main, single-instance path *)

Host == <<"a", ".", "b">>

\* The instance arguments followed on the command line.
MainArgs ==
    {Host, HTTPS \o Host \o SLASH, HTTP \o Host,
     <<"h", "t">> \o HTTP \o <<"t", "p", ":", "/", "/">> \o Host}

Construct ==
    /\ pc = "main"
    /\ \E a \in MainArgs : BuildChecker(a)
    /\ \E e \in BOOLEAN : export_opt' = e
    /\ UNCHANGED <<raised, printed, exported, scoreVars, probeVars, otherVars>>

PrintDetailedReport ==
    /\ pc = "returned"
    /\ ret = "True"
    /\ printed' = TRUE
    /\ scores' = Append(scores, calculate_health_score(health_data))
    /\ pc' = IF export_opt THEN "export" ELSE "exit"
    /\ UNCHANGED <<objVars, health_data, calls, ret, raised, export_opt,
                   exported, report0, probeVars, otherVars>>

ExportCsv ==
    /\ pc = "export"
    /\ exported' = TRUE
    /\ scores' = Append(scores, calculate_health_score(health_data))
    /\ pc' = "exit"
    /\ UNCHANGED <<objVars, health_data, calls, ret, raised, export_opt,
                   printed, report0, probeVars, otherVars>>

Init == Blank /\ pc = "main"

Next ==
    \/ Construct
    \/ RunFullCheck
    \/ PrintDetailedReport
    \/ ExportCsv

Spec == Init /\ [][Next]_vars

RunOver == pc \in {"returned", "export", "exit"}

GateStatus == StatusOf(health_data, "reachability")

\* C1: in a run whose Reachability probe returned ok or warning, the other
\* seven probes are invoked exactly once each in the fixed order, all eight
\* results are stored, and the run completes with a truthy result and no
\* fault leaving it.
C1_PassedGateRunsAllProbes ==
    (RunOver /\ GateStatus \in {"ok", "warning"}) =>
        /\ calls = ProbeOrder
        /\ DOMAIN health_data = ProbeNames
        /\ ret = "True"
        /\ raised = "none"

\* C2: a Reachability result of status error ends the run at once: no other
\* probe is invoked, the report holds the reachability entry alone,
\* run_full_check returns False, and main computes no score, prints no
\* report and exports nothing, whether or not --export was given.
C2_GateErrorStopsRun ==
    GateStatus = "error" =>
        /\ calls = <<"reachability">>
        /\ DOMAIN health_data = {"reachability"}
        /\ ret = "False"
        /\ raised = "none"
        /\ pc = "returned"
        /\ scores = <<>>
        /\ ~printed
        /\ ~exported

C2_Witness ==
    /\ GateStatus = "error"
    /\ health_data["reachability"].message = "SSL-Fehler"
    /\ export_opt
    /\ pc = "returned"

\* C9: the stored identity never starts with a scheme, the base address is
\* "https://" followed by it, and neither field changes once constructed.
C9_IdentityHasNoScheme ==
    /\ [](pc # "main" =>
            /\ ~startswith(instance, HTTP)
            /\ ~startswith(instance, HTTPS)
            /\ base_url = HTTPS \o instance)
    /\ [][pc # "main" => (instance' = instance /\ base_url' = base_url)]_vars

----------------------------------------------------------------------------
(* calculate_health_score called on the reports run_full_check can leave   *)
(* behind: all eight results, or the reachability error alone.             *)

Results(name, u) == {Probe(name, o) : o \in Outcomes(name, u)}

Report(r, a, n, t, s, m, sec, rl) ==
    [reachability |-> r, api |-> a, nodeinfo |-> n, timeline |-> t,
     streaming |-> s, media |-> m, security |-> sec, rate_limiting |-> rl]

Reports(u) ==
    {Report(r, a, n, t, s, m, sec, rl) :
        r \in {x \in Results("reachability", u) : x.status # "error"},
        a \in Results("api", u), n \in Results("nodeinfo", u),
        t \in Results("timeline", u), s \in Results("streaming", u),
        m \in Results("media", u), sec \in Results("security", u),
        rl \in Results("rate_limiting", u)}
    \cup {[reachability |-> r] :
            r \in {x \in Results("reachability", u) : x.status = "error"}}

InitScore ==
    /\ BlankObject /\ BlankRun /\ BlankMain /\ BlankProbe /\ BlankOther
    /\ health_data \in Reports(ScoreUniverse)
    /\ report0 = health_data
    /\ scores = <<>>
    /\ pc = "score"

CalculateHealthScore ==
    /\ pc = "score"
    /\ Len(scores) < MaxCalls
    /\ scores' = Append(scores, calculate_health_score(health_data))
    /\ UNCHANGED <<objVars, health_data, calls, pc, ret, raised, mainVars,
                   report0, probeVars, otherVars>>

NextScore == CalculateHealthScore

SpecScore == InitScore /\ [][NextScore]_vars

IsOk(hd, name) == name \in DOMAIN hd /\ hd[name].status = "ok"

NoProbeOk(hd) == \A n \in DOMAIN hd : hd[n].status # "ok"

SecurityScoreIs(hd, k) ==
    /\ "security" \in DOMAIN hd
    /\ "score" \in DOMAIN hd["security"]
    /\ hd["security"].score = k
    /\ hd["security"].max_score = 5

AllOkFastest(hd) ==
    /\ \A n \in ProbeNames : IsOk(hd, n)
    /\ hd["reachability"].latency_ms < 200
    /\ hd["timeline"].latency_ms < 300
    /\ SecurityScoreIs(hd, 5)

\* C3: calculate_health_score leaves the report as it was, returns the same
\* integer on every call for the same report, always within 0..100; it is 0
\* when no probe is ok and the security score is 0, and 100 when every probe
\* is ok with reachability under 200 ms, timeline under 300 ms and security
\* 5 of 5.
C3_ScorePureAndBounded ==
    /\ health_data = report0
    /\ \A i \in 1..Len(scores) :
          /\ scores[i] \in 0..100
          /\ scores[i] = scores[1]
          /\ (NoProbeOk(health_data) /\ SecurityScoreIs(health_data, 0))
                => scores[i] = 0
          /\ AllOkFastest(health_data) => scores[i] = 100

C3_Witness ==
    /\ Len(scores) >= 2
    /\ DOMAIN health_data = ProbeNames
    /\ NoProbeOk(health_data)
    /\ SecurityScoreIs(health_data, 0)
    /\ scores[2] = 0

\* The buckets as the specification's table states them.
Bonus(latency, fast, slow) ==
    IF latency < fast THEN 5 ELSE IF latency < slow THEN 3 ELSE 0

BucketR(hd) ==
    IF IsOk(hd, "reachability")
    THEN 20 + Bonus(hd["reachability"].latency_ms, 200, 500) ELSE 0

BucketT(hd) ==
    IF IsOk(hd, "timeline")
    THEN 10 + Bonus(hd["timeline"].latency_ms, 300, 600) ELSE 0

\* floor(15 * score / max_score): the largest q with q * max_score <= 15 * score
BucketSec(hd) ==
    IF "security" \in DOMAIN hd /\ hd["security"].status \in {"ok", "warning"}
    THEN CHOOSE q \in 0..15 :
            /\ q * hd["security"].max_score <= 15 * hd["security"].score
            /\ (q + 1) * hd["security"].max_score > 15 * hd["security"].score
    ELSE 0

Flat(hd, name, points) == IF IsOk(hd, name) THEN points ELSE 0

BucketSum(hd) ==
    BucketR(hd) + Flat(hd, "api", 15) + Flat(hd, "nodeinfo", 10) + BucketT(hd)
    + Flat(hd, "streaming", 10) + Flat(hd, "media", 10) + BucketSec(hd)
    + Flat(hd, "rate_limiting", 5)

\* C4: the score is min(100, R + A + F + T + S + M + Sec + RL) with the
\* buckets of the table; the all-ok report with latencies 150 ms and 250 ms
\* and security 5/5 sums to 105 and scores 100.
C4_ScoreIsClampedBucketSum ==
    \A i \in 1..Len(scores) :
        /\ scores[i] = Min(100, BucketSum(health_data))
        /\ ( /\ AllOkFastest(health_data)
             /\ health_data["reachability"].latency_ms = 150
             /\ health_data["timeline"].latency_ms = 250 )
           => (BucketSum(health_data) = 105 /\ scores[i] = 100)

C4_Witness ==
    /\ scores # <<>>
    /\ AllOkFastest(health_data)
    /\ health_data["reachability"].latency_ms = 150
    /\ health_data["timeline"].latency_ms = 250
    /\ scores[1] = 100

----------------------------------------------------------------------------
(* One probe invoked on its own, against every outcome of its HTTP calls.  *)

Invoke(name) ==
    /\ pc = "probe"
    /\ probe = "none"
    /\ \E o \in Outcomes(name, FullUniverse) :
          /\ probe' = name
          /\ outcome' = o
          /\ result' = Probe(name, o)
    /\ UNCHANGED <<objVars, health_data, calls, pc, ret, raised, mainVars,
                   scoreVars, requests, otherVars>>

InvokeReachability == Invoke("reachability")
InvokeApi == Invoke("api")
InvokeNodeinfo == Invoke("nodeinfo")
InvokeTimeline == Invoke("timeline")
InvokeStreaming == Invoke("streaming")
InvokeMedia == Invoke("media")
InvokeSecurity == Invoke("security")
InvokeRateLimiting == Invoke("rate_limiting")

InitProbe == Blank /\ pc = "probe"

NextProbeCall ==
    \/ InvokeReachability
    \/ InvokeApi
    \/ InvokeNodeinfo
    \/ InvokeTimeline
    \/ InvokeStreaming
    \/ InvokeMedia
    \/ InvokeSecurity
    \/ InvokeRateLimiting

SpecProbe == InitProbe /\ [][NextProbeCall]_vars

\* C6: whatever its HTTP calls do, a probe returns one result with status
\* ok, warning or error and lets no fault out; NodeInfo, Streaming,
\* Media-Upload and Rate-Limiting never return error, API never warning.
C6_ProbeAlwaysReturnsResult ==
    probe # "none" =>
        /\ ~IsRaise(result)
        /\ "status" \in DOMAIN result
        /\ result.status \in {"ok", "warning", "error"}
        /\ probe \in {"nodeinfo", "streaming", "media", "rate_limiting"}
              => result.status # "error"
        /\ probe = "api" => result.status # "warning"

C6_Witness ==
    /\ probe = "nodeinfo"
    /\ outcome[1].kind = "response" /\ outcome[1].status_code = 200
    /\ outcome[1].body = "garbage"
    /\ result.status = "warning"

\* C7: every result whose status is not ok carries a message.
C7_NonOkHasMessage ==
    (probe # "none" /\ result.status # "ok") => "message" \in DOMAIN result

\* The results that come out of a completed response without a message:
\* Reachability and Streaming on a non-200 answer, Security-Headers with
\* fewer than four checks met, Rate-Limiting without an X-RateLimit header.
WarnsByPayload ==
    /\ probe \in {"reachability", "streaming", "security", "rate_limiting"}
    /\ outcome.kind = "response"
    /\ result.status = "warning"

\* C7 as amended: every result of status error carries a message, and so
\* does every result of status warning, except the four warnings above,
\* which carry payload fields and no message.
C7_NonOkHasMessageUnlessPayload ==
    (probe # "none" /\ result.status # "ok") =>
        ("message" \in DOMAIN result <=> ~WarnsByPayload)

C7_Witness ==
    /\ probe = "timeline"
    /\ outcome.kind = "response" /\ outcome.status_code = 404
    /\ result.status = "warning"
    /\ result.message = "Status 404"

----------------------------------------------------------------------------
(* The constructor applied to the three spellings of one host.             *)

Fragments ==
    {<<"a">>, SLASH, HTTP, HTTPS, <<"h", "t", "t", "p", ":", "/">>,
     <<"h", "t">>, <<"t", "p", ":", "/", "/">>}

RECURSIVE StringsOf(_)
StringsOf(n) ==
    IF n = 0 THEN {<<>>}
    ELSE StringsOf(n - 1) \cup {s \o f : s \in StringsOf(n - 1), f \in Fragments}

HostStrings == StringsOf(MaxFragments)

ConstructSpellings ==
    /\ pc = "spellings"
    /\ checkers = <<>>
    /\ \E host \in HostStrings :
          /\ arg' = host
          /\ checkers' = <<NewChecker(HTTPS \o host \o SLASH),
                           NewChecker(HTTP \o host),
                           NewChecker(host)>>
    /\ UNCHANGED <<instance, base_url, health_data, calls, pc, ret, raised,
                   mainVars, scoreVars, probeVars, instances, results, ranking,
                   worlds, runs>>

InitNorm == Blank /\ pc = "spellings"

NextNorm == ConstructSpellings

SpecNorm == InitNorm /\ [][NextNorm]_vars

----------------------------------------------------------------------------
(* compare_instances *)

\* The i-th instance argument: "a", "aa", "aaa", ...
InstanceArg(i) == [k \in 1..i |-> "a"]

\* results.sort(key=score, reverse=True): descending, equal scores keep
\* their order.
RECURSIVE InsertDescending(_, _)
InsertDescending(x, s) ==
    IF s = <<>> THEN <<x>>
    ELSE IF Head(s).score >= x.score
         THEN <<Head(s)>> \o InsertDescending(x, Tail(s))
         ELSE <<x>> \o s

RECURSIVE SortDescending(_)
SortDescending(s) ==
    IF s = <<>> THEN <<>>
    ELSE InsertDescending(s[Len(s)], SortDescending(SubSeq(s, 1, Len(s) - 1)))

\* compare_instances(instances) is called: main hands it one or more names.
CompareStart ==
    /\ pc = "compare"
    /\ \E n \in 1..MaxInstances : instances' = [i \in 1..n |-> InstanceArg(i)]
    /\ pc' = "loop"
    /\ UNCHANGED <<objVars, health_data, calls, ret, raised, mainVars,
                   scoreVars, probeVars, checkers, results, ranking, worlds,
                   runs>>

\* The head of the for loop: the checker of the next instance, whose
\* answers are one of the scenarios.
CompareNextInstance ==
    /\ pc = "loop"
    /\ Len(worlds) < Len(instances)
    /\ \E w \in Scenarios : worlds' = Append(worlds, w)
    /\ BuildChecker(instances[Len(worlds) + 1])
    /\ UNCHANGED <<raised, mainVars, scoreVars, probeVars, checkers,
                   instances, results, ranking, runs>>

\* run_full_check returned: the entry is appended when it returned True;
\* after the last instance the results are sorted and the ranking printed.
CompareCollect ==
    /\ pc = "returned"
    /\ LET entry == [instance |-> instances[Len(worlds)],
                     score |-> calculate_health_score(health_data),
                     data |-> health_data]
           collected == IF ret = "True" THEN Append(results, entry)
                        ELSE results
       IN  /\ results' = collected
           /\ IF Len(worlds) = Len(instances)
              THEN ranking' = SortDescending(collected) /\ pc' = "compared"
              ELSE ranking' = ranking /\ pc' = "loop"
    /\ UNCHANGED <<objVars, health_data, calls, ret, raised, mainVars,
                   scoreVars, probeVars, checkers, instances, worlds, runs>>

InitCompare == Blank /\ pc = "compare"

NextCompare ==
    \/ CompareStart
    \/ CompareNextInstance
    \/ RunFullCheck
    \/ CompareCollect

SpecCompare == InitCompare /\ [][NextCompare]_vars

PassedGate(w) == Probe("reachability", w["reachability"]).status # "error"

CompareOver == pc \in {"compared", "exit"}

\* C5: one full check per instance in the order given; the ranking holds
\* exactly the instances whose Reachability result was not error, by score
\* descending, equal scores in input order; scores [40, 90, 90, 10] of
\* [A, B, C, D] rank as [B, C, A, D].
C5_RankingStableDescending ==
    CompareOver =>
        /\ raised = "none"
        /\ Len(worlds) = Len(instances)
        /\ Len(ranking)
              = Cardinality({i \in DOMAIN worlds : PassedGate(worlds[i])})
        /\ \A i \in DOMAIN worlds :
              PassedGate(worlds[i]) <=>
                  (\E k \in DOMAIN ranking : ranking[k].instance = InstanceArg(i))
        /\ \A k, l \in DOMAIN ranking :
              k < l =>
                  \/ ranking[k].score > ranking[l].score
                  \/ /\ ranking[k].score = ranking[l].score
                     /\ Len(ranking[k].instance) < Len(ranking[l].instance)
        /\ worlds = <<World40, World90, ApiFaultWorld, World10>> =>
              /\ [k \in DOMAIN ranking |-> ranking[k].score] = <<90, 90, 40, 10>>
              /\ [k \in DOMAIN ranking |-> ranking[k].instance]
                    = <<InstanceArg(2), InstanceArg(3), InstanceArg(1),
                        InstanceArg(4)>>

----------------------------------------------------------------------------
(* monitor_instance *)

\* The head of the while loop: a new checker for the instance.
MonitorNextRun ==
    /\ pc = "monitor"
    /\ runs < MaxRuns
    /\ \E w \in Scenarios : worlds' = <<w>>
    /\ BuildChecker(Host)
    /\ UNCHANGED <<raised, mainVars, scoreVars, probeVars, checkers,
                   instances, results, ranking, runs>>

\* run_full_check returned: the score or the failure line is printed and
\* time.sleep(interval) begins.
MonitorAfterRun ==
    /\ pc = "returned"
    /\ scores' = IF ret = "True"
                 THEN <<calculate_health_score(health_data)>> ELSE <<>>
    /\ runs' = runs + 1
    /\ pc' = "sleep"
    /\ UNCHANGED <<objVars, health_data, calls, ret, raised, mainVars,
                   report0, probeVars, checkers, instances, results, ranking,
                   worlds>>

\* time.sleep(interval) returns.
MonitorWake ==
    /\ pc = "sleep"
    /\ pc' = "monitor"
    /\ UNCHANGED <<objVars, health_data, calls, ret, raised, mainVars,
                   scoreVars, probeVars, otherVars>>

\* Ctrl+C anywhere inside the try: no probe catches it (it is no
\* Exception), the except clause of monitor_instance does.
KeyboardInterrupt ==
    /\ pc \notin {"stopped", "exit"}
    /\ pc' = "stopped"
    /\ UNCHANGED <<objVars, health_data, calls, ret, raised, mainVars,
                   scoreVars, probeVars, otherVars>>

InitMonitor == Blank /\ pc = "monitor"

NextMonitor ==
    \/ MonitorNextRun
    \/ RunFullCheck
    \/ MonitorAfterRun
    \/ MonitorWake
    \/ KeyboardInterrupt

SpecMonitor == InitMonitor /\ [][NextMonitor]_vars

\* C10: after every run, whatever its probes returned, the loop sleeps and
\* then starts another run on an empty report; it stops only on the
\* termination signal, which is a clean stop.
C10_MonitorStopsOnlyOnSignal ==
    /\ pc \in {"monitor", "sleep", "stopped"} \cup ProbeNames \cup {"returned"}
    /\ raised = "none"
    /\ pc = "reachability" => health_data = <<>>
    /\ pc = "sleep" => ret \in {"True", "False"}

----------------------------------------------------------------------------
(* check_api traced request by request on a constructed checker.           *)

Url(base, path) == [base |-> base, path |-> path]

\* requests.get(f"{self.base_url}/api/v2/instance") and what follows it up
\* to the v1 request.
ApiRequestV2 ==
    /\ pc = "api_v2"
    /\ \E o \in ApiOutcomes(FullUniverse) :
          LET r == api_v2_try(o) IN
          /\ requests' = Append(requests, Url(base_url, V2Path))
          /\ outcome' = Append(outcome, o)
          /\ IF IsFallthrough(r)
             THEN pc' = "api_v1" /\ result' = result
             ELSE pc' = "api_done" /\ result' = api_except(r)
    /\ UNCHANGED <<objVars, health_data, calls, ret, raised, mainVars,
                   scoreVars, probe, otherVars>>

\* requests.get(f"{self.base_url}/api/v1/instance") and what follows it.
ApiRequestV1 ==
    /\ pc = "api_v1"
    /\ \E o \in ApiOutcomes(FullUniverse) :
          /\ requests' = Append(requests, Url(base_url, V1Path))
          /\ outcome' = Append(outcome, o)
          /\ result' = api_except(api_v1_try(o))
    /\ pc' = "api_done"
    /\ UNCHANGED <<objVars, health_data, calls, ret, raised, mainVars,
                   scoreVars, probe, otherVars>>

InitApi ==
    /\ BlankRun /\ BlankMain /\ BlankOther
    /\ scores = <<>> /\ report0 = <<>>
    /\ \E a \in MainArgs :
          /\ arg = a
          /\ instance = NewChecker(a).instance
          /\ base_url = NewChecker(a).base_url
          /\ health_data = NewChecker(a).health_data
    /\ probe = "api" /\ outcome = <<>> /\ result = <<>> /\ requests = <<>>
    /\ pc = "api_v2"

NextApi == ApiRequestV2 \/ ApiRequestV1

SpecApi == InitApi /\ [][NextApi]_vars

Responded(o) == o.kind = "response"
Is200(o) == Responded(o) /\ o.status_code = 200
Non200(o) == Responded(o) /\ o.status_code # 200
Parseable(o) == o.body = "json"
OkVersion(r, v) ==
    r.status = "ok" /\ "version" \in DOMAIN r /\ r.version = v

\* C11: the API probe requests /api/v2/instance first and /api/v1/instance
\* only after the v2 request returned a response with a status code other
\* than 200 (never after a v2 fault, never after a v2 200), so at most two
\* requests are issued; the result is ok with version v2 iff v2 returned 200
\* with a parseable body, ok with version v1 iff v2 was non-200 and v1
\* returned 200 with a parseable body, and error carrying the v1 status code
\* when both responded non-200.
C11_ApiFallsBackOnlyOnNon200 ==
    /\ Len(requests) <= 2 /\ Len(outcome) = Len(requests)
    /\ Len(requests) >= 1 => requests[1] = Url(base_url, V2Path)
    /\ Len(requests) = 2 =>
          /\ requests[2] = Url(base_url, V1Path)
          /\ Non200(outcome[1])
    /\ pc = "api_v1" => (Len(requests) = 1 /\ Non200(outcome[1]))
    /\ pc = "api_done" =>
          /\ Len(requests) >= 1
          /\ Len(requests) = 2 <=> Non200(outcome[1])
          /\ result = check_api(outcome)
          /\ OkVersion(result, "v2")
                <=> (Is200(outcome[1]) /\ Parseable(outcome[1]))
          /\ OkVersion(result, "v1")
                <=> /\ Non200(outcome[1])
                    /\ Is200(outcome[2]) /\ Parseable(outcome[2])
          /\ result.status = "ok"
                => (OkVersion(result, "v2") \/ OkVersion(result, "v1"))
          /\ (Non200(outcome[1]) /\ Non200(outcome[2])) =>
                /\ result.status = "error"
                /\ result.message
                      = "Status " \o CodeStr(outcome[2].status_code)

C11_Witness ==
    /\ pc = "api_done"
    /\ Len(requests) = 2
    /\ requests[1].path = V2Path /\ requests[2].path = V1Path
    /\ outcome[1].kind = "response" /\ outcome[1].status_code = 404
    /\ outcome[2].kind = "response" /\ outcome[2].status_code = 200
    /\ outcome[2].body = "json"
    /\ result.status = "ok" /\ result.version = "v1"

====
